---- MODULE Spec2Model ----
(***************************************************************************)
(* claude-usage-status: one invocation of the status-line binary.          *)
(*                                                                         *)
(* main resolves an OAuth token (credentials file, then the macOS Keychain *)
(* on darwin), issues one GET to the usage endpoint, and prints one status *)
(* line, or prints "Error: ..." to standard error and exits 1.             *)
(* src/output/statusline.sh is the wrapper Claude Code calls; it runs the  *)
(* binary as a child (SpecWrapper).                                        *)
(*                                                                         *)
(* Two generations of the program are in the repository and both are       *)
(* modelled, selected by the variable variant:                             *)
(*   "current": src/main.go with src/credentials.go and the build-tagged   *)
(*              readCredentials of src/credentials_darwin.go (darwin) or   *)
(*              src/unnamed/part_001 (!darwin);                            *)
(*   "legacy":  the single-file program kept in src/install.sh from line   *)
(*              183 on, which branches on runtime.GOOS and draws its own   *)
(*              ANSI bar.                                                  *)
(*                                                                         *)
(* Conventions.  A float64 utilization is a fixed-point integer counting   *)
(* hundredths (4500 is 45.0, 45 is 0.45).  An error value is the sequence  *)
(* of the pieces fmt.Errorf concatenates, <<>> being nil.  A resets_at     *)
(* string "2026-01-DDThh:mm:ssZ" is the tuple <<DD, hh, mm, ss>>; any      *)
(* other tuple is a string time.Parse rejects, <<>> the empty string.      *)
(***************************************************************************)
EXTENDS Integers, Sequences, FiniteSets, TLC

VARIABLES
    variant,     \* which generation of the program runs
    goos,        \* the platform it was built for / runs on
    pc,          \* position of main
    home,        \* os.UserHomeDir() as observed ("" when it failed)
    file,        \* what os.ReadFile found at the credentials path
    keychain,    \* what the Keychain query found
    response,    \* what client.Do returned
    token,       \* main's token
    err,         \* main's err
    usage,       \* main's usage
    now,         \* time.Now() as read by main
    io,          \* the external reads and requests performed, in order
    requests,    \* the HTTP requests sent
    stdout,      \* lines written to standard output
    stderr,      \* messages written to standard error
    exitCode,    \* process exit status, -1 while running
    bar,         \* bar laboratory: the last bar drawn (SpecBar only)
    wrapper      \* statusline.sh running the program (SpecWrapper only)

vars == <<variant, goos, pc, home, file, keychain, response, token, err,
          usage, now, io, requests, stdout, stderr, exitCode, bar, wrapper>>

----------------------------------------------------------------------------
(* Generic helpers *)

Range(s) == {s[i] : i \in 1..Len(s)}

\* The empty JSON object (no keys).
EmptyObj == [k \in {} |-> 0]

\* A value not yet read.
None == [kind |-> "none"]

----------------------------------------------------------------------------
(* Credentials: src/credentials.go, src/credentials_darwin.go,             *)
(* src/unnamed/part_001, src/install.sh 219-298                            *)

\* Documents a credentials source can hold.  "garbage" is not JSON,
\* "mistyped" is JSON whose accessToken is not a string; a "json" document
\* is the object itself, keys possibly missing.
CredJson(tok) == [kind |-> "json", doc |-> [claudeAiOauth |-> [accessToken |-> tok]]]

Tokens == {"tokA", "tokB"}

CredDocs ==
    { [kind |-> "garbage",  doc |-> EmptyObj],
      [kind |-> "mistyped", doc |-> EmptyObj],
      [kind |-> "json",     doc |-> EmptyObj],
      [kind |-> "json",     doc |-> [claudeAiOauth |-> EmptyObj]],
      CredJson("") }
    \cup { CredJson(t) : t \in Tokens }

\* The states of the credentials file: absent, unreadable, or holding data.
FileStates ==
    { [state |-> "missing", data |-> None],
      [state |-> "denied",  data |-> None] }
    \cup { [state |-> "present", data |-> d] : d \in CredDocs }

\* The states of the Keychain: query failure, no item, or an item's data.
KeychainStates ==
    { [state |-> "error", data |-> None],
      [state |-> "empty", data |-> None] }
    \cup { [state |-> "item", data |-> d] : d \in CredDocs }

Homes == {"", "/home/u"}

\* json.Unmarshal(data, &creds): the decoded Credentials struct; a key that
\* is absent leaves the zero value "".
UnmarshalCredentials(data) ==
    IF data.kind # "json"
    THEN [ok |-> FALSE, AccessToken |-> "",
          msg |-> IF data.kind = "garbage"
                  THEN "invalid character"
                  ELSE "cannot unmarshal into Go struct field"]
    ELSE [ok |-> TRUE,
          AccessToken |->
              IF "claudeAiOauth" \in DOMAIN data.doc
                 /\ "accessToken" \in DOMAIN data.doc.claudeAiOauth
              THEN data.doc.claudeAiOauth.accessToken
              ELSE "",
          msg |-> ""]

\* filepath.Join(home, ".claude", ".credentials.json"), "" without a home.
getCredentialsPath(h) ==
    IF h = "" THEN "" ELSE h \o "/.claude/.credentials.json"

\* The *PathError os.ReadFile returns.
ReadFileError(path, f) ==
    <<"open ", path, ": ",
      IF f.state = "missing" THEN "no such file or directory"
                             ELSE "permission denied">>

\* Whether readCredentialsFromFile gets as far as os.ReadFile.
FileIsRead(h) == getCredentialsPath(h) # ""

\* Faulty variant: the empty-token check is missing.
readCredentialsFromFile_NoEmptyCheck(h, f) ==
    LET credPath == getCredentialsPath(h)
        creds    == UnmarshalCredentials(f.data)
    IN  IF credPath = ""
        THEN [token |-> "", err |-> <<"could not determine home directory">>]
        ELSE IF f.state # "present"
        THEN [token |-> "", err |-> ReadFileError(credPath, f)]
        ELSE IF ~creds.ok
        THEN [token |-> "", err |-> <<"failed to parse credentials: ", creds.msg>>]
        ELSE [token |-> creds.AccessToken, err |-> <<>>]

\* readCredentialsFromFile() (string, error)
readCredentialsFromFile(h, f) ==
    LET credPath == getCredentialsPath(h)
        creds    == UnmarshalCredentials(f.data)
    IN  IF credPath = ""
        THEN [token |-> "", err |-> <<"could not determine home directory">>]
        ELSE IF f.state # "present"
        THEN [token |-> "", err |-> ReadFileError(credPath, f)]
        ELSE IF ~creds.ok
        THEN [token |-> "", err |-> <<"failed to parse credentials: ", creds.msg>>]
        ELSE IF creds.AccessToken = ""
        THEN [token |-> "", err |-> <<"no access token found in credentials">>]
        ELSE [token |-> creds.AccessToken, err |-> <<>>]

\* readCredentialsFromKeychain() (string, error).  The current program
\* queries go-keychain; the legacy one runs `security find-generic-password`,
\* which fails when there is no item.
readCredentialsFromKeychain(v, k) ==
    LET creds == UnmarshalCredentials(k.data)
    IN  IF k.state = "error"
        THEN [token |-> "",
              err |-> IF v = "current"
                      THEN <<"failed to query Keychain: ", "keychain error">>
                      ELSE <<"failed to read from Keychain: ", "exit status 1">>]
        ELSE IF k.state = "empty"
        THEN [token |-> "",
              err |-> IF v = "current"
                      THEN <<"no credentials found in Keychain">>
                      ELSE <<"failed to read from Keychain: ", "exit status 44">>]
        ELSE IF ~creds.ok
        THEN [token |-> "",
              err |-> <<"failed to parse Keychain credentials: ", creds.msg>>]
        ELSE IF creds.AccessToken = ""
        THEN [token |-> "", err |-> <<"no access token found in Keychain credentials">>]
        ELSE [token |-> creds.AccessToken, err |-> <<>>]

\* Faulty variant: the fallback is attempted on every platform.
HasKeychainFallback_Always(v, os) == TRUE

\* Whether readCredentials falls back to the Keychain after a file failure:
\* the darwin build always does, the other build never, the legacy program
\* when runtime.GOOS is darwin.
HasKeychainFallback(v, os) == os = "darwin"

\* Faulty variant: the message names no path of its own.
FileOnlyError_NoPath(v, h, fileErr) ==
    IF v = "current"
    THEN <<"credentials not found: ">> \o fileErr
    ELSE <<"credentials not found">>

\* The error readCredentials returns when the file failed and there is no
\* fallback.  The current !darwin build wraps the file error; the legacy
\* program names the path only.
FileOnlyError(v, h, fileErr) ==
    IF v = "current"
    THEN <<"credentials not found at ", getCredentialsPath(h), ": ">> \o fileErr
    ELSE <<"credentials not found at ", getCredentialsPath(h)>>

\* Faulty variant: the Keychain failure is not wrapped.
KeychainError_Bare(keyErr) == <<"credentials not found in file or Keychain: ">>

\* The error readCredentials returns on darwin when the Keychain failed too.
KeychainError(keyErr) ==
    <<"credentials not found in file or Keychain: ">> \o keyErr

----------------------------------------------------------------------------
(* Usage client: src/main.go 16-69 (identical in src/install.sh 205-339)   *)

usageAPIURL == "https://api.anthropic.com/api/oauth/usage"

StatusOK == 200

Statuses == {StatusOK, 201, 204, 401, 500}

\* Values of the fields of a bucket in the bodies the server sends.
Utilizations == {45, 7800, 12000}

ResetStrings == {<<9, 15, 0, 0>>, <<0>>}

BodyBuckets ==
    { EmptyObj, [utilization |-> 9500], [resets_at |-> <<9, 15, 0, 0>>] }
    \cup { [utilization |-> u, resets_at |-> r] :
             u \in Utilizations, r \in ResetStrings }

UsageDocs ==
    { EmptyObj, [error |-> [message |-> "invalid token"]] }
    \cup { [five_hour |-> b] : b \in BodyBuckets }
    \cup { [seven_day |-> b] : b \in BodyBuckets }
    \cup { [five_hour |-> a, seven_day |-> b] : a, b \in BodyBuckets }

\* Response bodies: text that is not JSON, JSON of another shape (a field of
\* the wrong type), a JSON object, and a body whose read fails part-way
\* ("readerr": text is what arrived before the failure).
Bodies ==
    { [kind |-> "garbage",  text |-> "<html>Bad Gateway</html>", doc |-> EmptyObj],
      [kind |-> "mistyped", text |-> "{\"five_hour\":\"n/a\"}",  doc |-> EmptyObj],
      [kind |-> "readerr",  text |-> "{\"five_ho",               doc |-> EmptyObj] }
    \cup { [kind |-> "json", text |-> ToString(d), doc |-> d] : d \in UsageDocs }

\* What client.Do can return: a transport failure or a response.
Responses ==
    { [kind |-> "transport", status |-> 0, body |-> None] }
    \cup { [kind |-> "http", status |-> s, body |-> b] :
             s \in Statuses, b \in Bodies }

\* The request fetchUsageFromURL builds (main.go 32-39).
NewRequest(url, tok) ==
    [method        |-> "GET",
     url           |-> url,
     Accept        |-> "application/json",
     Authorization |-> "Bearer " \o tok,
     beta          |-> "oauth-2025-04-20"]

\* The zero UsageBucket and UsageResponse.
ZeroBucket == [Utilization |-> 0, ResetsAt |-> <<>>]

ZeroUsage == [FiveHour |-> ZeroBucket, SevenDay |-> ZeroBucket]

\* Decoding one bucket object: a key that is absent leaves the zero value.
UnmarshalBucket(doc, key) ==
    IF key \notin DOMAIN doc
    THEN ZeroBucket
    ELSE [Utilization |-> IF "utilization" \in DOMAIN doc[key]
                          THEN doc[key].utilization ELSE 0,
          ResetsAt    |-> IF "resets_at" \in DOMAIN doc[key]
                          THEN doc[key].resets_at ELSE <<>>]

\* Faulty variant: a bucket that is absent is a decode error.
UnmarshalUsage_Required(body) ==
    IF body.kind # "json" \/ DOMAIN body.doc # {"five_hour", "seven_day"}
    THEN [ok |-> FALSE, usage |-> ZeroUsage, msg |-> "missing field"]
    ELSE [ok |-> TRUE,
          usage |-> [FiveHour |-> UnmarshalBucket(body.doc, "five_hour"),
                     SevenDay |-> UnmarshalBucket(body.doc, "seven_day")],
          msg |-> ""]

\* Faulty variant: both buckets are decoded from the five_hour key.
UnmarshalUsage_SameKey(body) ==
    IF body.kind # "json"
    THEN [ok |-> FALSE, usage |-> ZeroUsage, msg |-> "invalid character"]
    ELSE [ok |-> TRUE,
          usage |-> [FiveHour |-> UnmarshalBucket(body.doc, "five_hour"),
                     SevenDay |-> UnmarshalBucket(body.doc, "five_hour")],
          msg |-> ""]

\* json.Unmarshal(body, &usage)
UnmarshalUsage(body) ==
    IF body.kind # "json"
    THEN [ok |-> FALSE, usage |-> ZeroUsage,
          msg |-> IF body.kind = "garbage"
                  THEN "invalid character"
                  ELSE "cannot unmarshal into Go struct field"]
    ELSE [ok |-> TRUE,
          usage |-> [FiveHour |-> UnmarshalBucket(body.doc, "five_hour"),
                     SevenDay |-> UnmarshalBucket(body.doc, "seven_day")],
          msg |-> ""]

\* Faulty variant: every 2xx status is a success.
StatusAccepted_Any2xx(status) == status \in 200..299

\* Faulty variant: the status is not checked.
StatusAccepted_Any(status) == TRUE

\* Whether fetchUsageFromURL takes the response as a success (main.go 48).
StatusAccepted(status) == status = StatusOK

\* The error for a response that is not accepted (main.go 49-50): the read
\* error of the body is dropped, the bytes that arrived are kept.
StatusError(resp) ==
    <<"API returned status ", ToString(resp.status), ": ", resp.body.text>>

\* fetchUsageFromURL(url, token) given what client.Do returned: the pair
\* (*UsageResponse, error); ok says the pointer is not nil.
fetchUsageFromURL(url, tok, resp) ==
    LET dec == UnmarshalUsage(resp.body)
    IN  IF resp.kind = "transport"
        THEN [ok |-> FALSE, usage |-> ZeroUsage,
              err |-> <<"failed to fetch usage: ", "Get: dial tcp: no route to host">>]
        ELSE IF ~StatusAccepted(resp.status)
        THEN [ok |-> FALSE, usage |-> ZeroUsage, err |-> StatusError(resp)]
        ELSE IF resp.body.kind = "readerr"
        THEN [ok |-> FALSE, usage |-> ZeroUsage,
              err |-> <<"failed to read response body: ", "unexpected EOF">>]
        ELSE IF ~dec.ok
        THEN [ok |-> FALSE, usage |-> ZeroUsage,
              err |-> <<"failed to parse usage response: ", dec.msg>>]
        ELSE [ok |-> TRUE, usage |-> dec.usage, err |-> <<>>]

----------------------------------------------------------------------------
(* Visual mapper and line formatter: src/main.go 71-167 (current) and      *)
(* src/install.sh 341-462 (legacy)                                         *)

\* Faulty variant: the conversion rounds down.
IntOf_Floor(p) == p \div 100

\* int(x) of a float64 held in hundredths: truncation toward zero.
IntOf(p) == IF p >= 0 THEN p \div 100 ELSE -((-p) \div 100)

\* Faulty variant: the upper limit is not enforced.
Clamp_NoUpper(p) == IF p < 0 THEN 0 ELSE p

\* The clamp both bar functions start with (main.go 89-94, install.sh
\* 370-375); 10000 is the float 100.
Clamp(p) == IF p > 10000 THEN 10000 ELSE IF p < 0 THEN 0 ELSE p

\* getGradientColor(position) of the legacy program, the position being the
\* quotient num/den of two ints.
getGradientColor(num, den) ==
    IF 2 * num < den THEN "green"
    ELSE IF 10 * num < 7 * den THEN "lime"
    ELSE IF 100 * num < 85 * den THEN "yellow"
    ELSE IF 100 * num < 95 * den THEN "orange"
    ELSE "red"

\* Faulty variant: the count is rounded to the nearest cell.
FilledCells_Rounded(p, width) == (width * Clamp(p) + 5000) \div 10000

\* filled := int(float64(width) * percent / 100) on the clamped percent.
FilledCells(p, width) ==
    LET x == width * Clamp(p)
    IN  IF x >= 0 THEN x \div 10000 ELSE -((-x) \div 10000)

\* Faulty variant: the position is taken at the right edge of the cell.
FilledCell_OffByOne(i, width) ==
    [glyph |-> "filled", color |-> getGradientColor(i + 1, width)]

\* One cell of the legacy bar.
FilledCell(i, width) == [glyph |-> "filled", color |-> getGradientColor(i, width)]

EmptyCell == [glyph |-> "empty", color |-> "dimGray"]

\* renderProgressBar(percent, width) of the legacy program: the cells it
\* appends, left to right (the two loops run zero times for a count <= 0).
renderProgressBar(p, width) ==
    LET filled == FilledCells(p, width)
        empty  == width - filled
    IN  [i \in 1..(IF filled > 0 THEN filled ELSE 0) |-> FilledCell(i - 1, width)]
        \o [i \in 1..(IF empty > 0 THEN empty ELSE 0) |-> EmptyCell]

\* getGradientEndColor(pct) of the current program: the RGB triple it formats.
getGradientEndColor(p) ==
    <<IntOf((255 * p) \div 100), IntOf((255 * (10000 - p)) \div 100), 0>>

\* createProgressBar(percent, width) of the current program: the bar is
\* drawn by the bubbles progress widget; what the program decides is the
\* widget's configuration and the fraction handed to ViewAs (percent / 100,
\* kept here in ten-thousandths).
createProgressBar(p, width) ==
    [widget   |-> "bubbles/progress",
     width    |-> width,
     gradient |-> <<"#00ff00", getGradientEndColor(Clamp(p))>>,
     viewAs   |-> Clamp(p)]

\* Faulty variant: the boundaries belong to the lower tier.
getLabelColor_Inclusive(p) ==
    IF p <= 7000 THEN "green"
    ELSE IF p <= 9000 THEN "yellow"
    ELSE "red"

\* getLabelStyle (current) and getLabelColor (legacy): the label's colour.
getLabelColor(p) ==
    IF p < 7000 THEN "green"
    ELSE IF p < 9000 THEN "yellow"
    ELSE "red"

\* time.Parse(time.RFC3339, s) on the strings of the model; sec counts the
\* seconds since 2026-01-01T00:00:00Z.
ParseRFC3339(s) ==
    IF Len(s) = 4 /\ s[1] \in 1..31 /\ s[2] \in 0..23
       /\ s[3] \in 0..59 /\ s[4] \in 0..59
    THEN [ok |-> TRUE, sec |-> ((s[1] - 1) * 24 + s[2]) * 3600 + s[3] * 60 + s[4]]
    ELSE [ok |-> FALSE, sec |-> 0]

\* Faulty variant: the minutes are rounded to the nearest minute.
formatDuration_RoundUp(d) ==
    LET hours   == d \div 3600
        minutes == ((d + 30) \div 60) % 60
    IN  IF d < 0 THEN <<"now">>
        ELSE IF hours > 0 /\ minutes > 0
        THEN <<ToString(hours), "h", ToString(minutes), "m">>
        ELSE IF hours > 0 THEN <<ToString(hours), "h">>
        ELSE IF minutes > 0 THEN <<ToString(minutes), "m">>
        ELSE <<"now">>

\* formatDuration(d), d in seconds: the pieces it prints.
formatDuration(d) ==
    LET hours   == d \div 3600
        minutes == (d \div 60) % 60
    IN  IF d < 0 THEN <<"now">>
        ELSE IF hours > 0 /\ minutes > 0
        THEN <<ToString(hours), "h", ToString(minutes), "m">>
        ELSE IF hours > 0 THEN <<ToString(hours), "h">>
        ELSE IF minutes > 0 THEN <<ToString(minutes), "m">>
        ELSE <<"now">>

\* Faulty variant: a string that does not parse is taken as the zero time.
formatTimeUntilReset_ZeroTime(resetAt, t) ==
    LET parsed == ParseRFC3339(resetAt)
    IN  formatDuration(parsed.sec - t)

\* formatTimeUntilReset(resetAt, now)
formatTimeUntilReset(resetAt, t) ==
    LET parsed == ParseRFC3339(resetAt)
    IN  IF ~parsed.ok THEN <<"unknown">> ELSE formatDuration(parsed.sec - t)

\* The bar of a bucket as the running program draws it.
BarOf(v, p, width) ==
    IF v = "current" THEN createProgressBar(p, width) ELSE renderProgressBar(p, width)

\* The width formatStatusLine asks for (main.go 155, install.sh 448).
BarWidth == 10

\* Faulty variant: the utilization is read as a fraction of 1.
LabelOf_Fraction(p) ==
    [color |-> getLabelColor(p * 100), number |-> IntOf(p * 100), suffix |-> "%"]

\* The percentage label: the colour and the text of "%d%%".
LabelOf(p) == [color |-> getLabelColor(p), number |-> IntOf(p), suffix |-> "%"]

\* A piece of the line: literal text of the format string, or one argument.
Piece(kind, val) == [kind |-> kind, val |-> val]

\* Faulty variant: the seven-day column repeats the five-hour bucket.
formatStatusLine_OneBucket(v, u, t) ==
    << [kind |-> "text",  val |-> "5h"],
       [kind |-> "bar",   val |-> BarOf(v, u.FiveHour.Utilization, BarWidth)],
       [kind |-> "label", val |-> LabelOf(u.FiveHour.Utilization)],
       [kind |-> "text",  val |-> "|"],
       [kind |-> "text",  val |-> "7d"],
       [kind |-> "bar",   val |-> BarOf(v, u.FiveHour.Utilization, BarWidth)],
       [kind |-> "label", val |-> LabelOf(u.FiveHour.Utilization)],
       [kind |-> "text",  val |-> "|"],
       [kind |-> "text",  val |-> "clock"],
       [kind |-> "reset", val |-> formatTimeUntilReset(u.FiveHour.ResetsAt, t)] >>

\* Faulty variant: the countdown runs to the sooner of the two resets.
formatStatusLine_Soonest(v, u, t) ==
    LET five  == ParseRFC3339(u.FiveHour.ResetsAt)
        seven == ParseRFC3339(u.SevenDay.ResetsAt)
        reset == IF five.ok /\ seven.ok /\ seven.sec < five.sec
                 THEN u.SevenDay.ResetsAt ELSE u.FiveHour.ResetsAt
    IN  << [kind |-> "text",  val |-> "5h"],
           [kind |-> "bar",   val |-> BarOf(v, u.FiveHour.Utilization, BarWidth)],
           [kind |-> "label", val |-> LabelOf(u.FiveHour.Utilization)],
           [kind |-> "text",  val |-> "|"],
           [kind |-> "text",  val |-> "7d"],
           [kind |-> "bar",   val |-> BarOf(v, u.SevenDay.Utilization, BarWidth)],
           [kind |-> "label", val |-> LabelOf(u.SevenDay.Utilization)],
           [kind |-> "text",  val |-> "|"],
           [kind |-> "text",  val |-> "clock"],
           [kind |-> "reset", val |-> formatTimeUntilReset(reset, t)] >>

\* formatStatusLine(usage, now): the line as the pieces its Sprintf lays out,
\* left to right: "5h <bar> <label> | 7d <bar> <label> | <clock> <reset>".
formatStatusLine(v, u, t) ==
    << Piece("text",  "5h"),
       Piece("bar",   BarOf(v, u.FiveHour.Utilization, BarWidth)),
       Piece("label", LabelOf(u.FiveHour.Utilization)),
       Piece("text",  "|"),
       Piece("text",  "7d"),
       Piece("bar",   BarOf(v, u.SevenDay.Utilization, BarWidth)),
       Piece("label", LabelOf(u.SevenDay.Utilization)),
       Piece("text",  "|"),
       Piece("text",  "clock"),
       Piece("reset", formatTimeUntilReset(u.FiveHour.ResetsAt, t)) >>

----------------------------------------------------------------------------
(* The run of main: src/main.go 169-183 (install.sh 464-478)              *)

Variants == {"current", "legacy"}

Platforms == {"darwin", "linux"}

\* Instants time.Now() may return, in seconds since 2026-01-01T00:00:00Z.
Nows == { ParseRFC3339(<<9, 12, 45, 0>>).sec,
          ParseRFC3339(<<9, 14, 59, 30>>).sec,
          ParseRFC3339(<<9, 15, 0, 0>>).sec }

Unread == [state |-> "unread", data |-> None]

NoResponse == [kind |-> "none", status |-> 0, body |-> None]

\* statusline.sh not running: the program was started directly.
NoWrapper ==
    [pc |-> "none", stdin |-> [data |-> <<>>, eof |-> TRUE], devnull |-> <<>>,
     binary |-> "executable", output |-> <<>>, exit_code |-> -1, out |-> <<>>]

\* The bar laboratory at rest.
NoBar == [drawn |-> FALSE, percent |-> 0, width |-> 0, cells |-> <<>>,
          widget |-> createProgressBar(0, 0), label |-> LabelOf(0)]

Init ==
    /\ variant \in Variants
    /\ goos \in Platforms
    /\ pc = "ResolvingCredentials"
    /\ home \in Homes
    /\ file = Unread
    /\ keychain = Unread
    /\ response = NoResponse
    /\ token = ""
    /\ err = <<>>
    /\ usage = ZeroUsage
    /\ now = 0
    /\ io = <<>>
    /\ requests = <<>>
    /\ stdout = <<>>
    /\ stderr = <<>>
    /\ exitCode = -1
    /\ bar = NoBar
    /\ wrapper = NoWrapper

\* readCredentials, first half: readCredentialsFromFile, and the return of
\* readCredentials when the file decides it (a token, or no fallback).
ReadCredentialsFile ==
    /\ pc = "ResolvingCredentials"
    /\ \E f \in (IF FileIsRead(home) THEN FileStates ELSE {Unread}) :
         LET r == readCredentialsFromFile(home, f)
         IN  /\ file' = f
             /\ io' = IF FileIsRead(home) THEN Append(io, "file") ELSE io
             /\ IF r.err = <<>>
                THEN /\ token' = r.token
                     /\ err' = <<>>
                     /\ pc' = "FetchingUsage"
                ELSE IF HasKeychainFallback(variant, goos)
                THEN /\ token' = ""
                     /\ err' = r.err
                     /\ pc' = "QueryingKeychain"
                ELSE /\ token' = ""
                     /\ err' = FileOnlyError(variant, home, r.err)
                     /\ pc' = "Failing"
    /\ UNCHANGED <<variant, goos, home, keychain, response, usage, now,
                   requests, stdout, stderr, exitCode, bar,
                   wrapper>>

\* readCredentials, second half: readCredentialsFromKeychain and the return.
QueryKeychain ==
    /\ pc = "QueryingKeychain"
    /\ \E k \in KeychainStates :
         LET r == readCredentialsFromKeychain(variant, k)
         IN  /\ keychain' = k
             /\ io' = Append(io, "keychain")
             /\ IF r.err = <<>>
                THEN /\ token' = r.token
                     /\ err' = <<>>
                     /\ pc' = "FetchingUsage"
                ELSE /\ token' = ""
                     /\ err' = KeychainError(r.err)
                     /\ pc' = "Failing"
    /\ UNCHANGED <<variant, goos, home, file, response, usage, now,
                   requests, stdout, stderr, exitCode, bar,
                   wrapper>>

\* Faulty variant: the error of the fetch is ignored.
AfterFetch_AlwaysFormats(ok) == "Formatting"

\* Faulty variant: a failed fetch is tried again.
AfterFetch_Retries(ok) == IF ok THEN "Formatting" ELSE "FetchingUsage"

\* Where main goes after a fetch: on to formatting, or to the error exit.
AfterFetch(ok) == IF ok THEN "Formatting" ELSE "Failing"

\* fetchUsage(token): the request goes out, client.Do returns, and
\* fetchUsageFromURL returns to main.
FetchUsage ==
    /\ pc = "FetchingUsage"
    /\ \E resp \in Responses :
         LET r == fetchUsageFromURL(usageAPIURL, token, resp)
         IN  /\ requests' = Append(requests, NewRequest(usageAPIURL, token))
             /\ io' = Append(io, "http")
             /\ response' = resp
             /\ usage' = r.usage
             /\ err' = r.err
             /\ pc' = AfterFetch(r.ok)
    /\ UNCHANGED <<variant, goos, home, file, keychain, token, now,
                   stdout, stderr, exitCode, bar,
                   wrapper>>

\* fmt.Println(formatStatusLine(usage, time.Now())) and the return of main.
PrintStatusLine ==
    /\ pc = "Formatting"
    /\ \E t \in Nows :
         /\ now' = t
         /\ stdout' = Append(stdout, formatStatusLine(variant, usage, t))
    /\ exitCode' = 0
    /\ pc' = "Rendered"
    /\ UNCHANGED <<variant, goos, home, file, keychain, response, token, err,
                   usage, io, requests, stderr, bar,
                   wrapper>>

\* Faulty variant: the message goes to standard output.
ExitWithError_ToStdout ==
    /\ pc = "Failing"
    /\ stdout' = Append(stdout, <<"Error: ">> \o err)
    /\ exitCode' = 1
    /\ pc' = "Failed"
    /\ UNCHANGED <<variant, goos, home, file, keychain, response, token, err,
                   usage, now, io, requests, stderr, bar,
                   wrapper>>

\* fmt.Fprintf(os.Stderr, "Error: %v\n", err); os.Exit(1)
ExitWithError ==
    /\ pc = "Failing"
    /\ stderr' = Append(stderr, <<"Error: ">> \o err)
    /\ exitCode' = 1
    /\ pc' = "Failed"
    /\ UNCHANGED <<variant, goos, home, file, keychain, response, token, err,
                   usage, now, io, requests, stdout, bar,
                   wrapper>>

Next ==
    \/ ReadCredentialsFile
    \/ QueryKeychain
    \/ FetchUsage
    \/ PrintStatusLine
    \/ ExitWithError

Spec == Init /\ [][Next]_vars

----------------------------------------------------------------------------
(* Properties of the run of main *)

Terminated == pc \in {"Rendered", "Failed"}

\* What readCredentialsFromFile returned in this run (meaningful once main
\* has left ResolvingCredentials).
FileResult == readCredentialsFromFile(home, file)

\* What readCredentialsFromKeychain returned (meaningful once queried).
KeychainResult == readCredentialsFromKeychain(variant, keychain)

FileTried == pc # "ResolvingCredentials"

KeychainTried == keychain # Unread

\* Position of an external operation in the order file, Keychain, HTTP.
Rank(op) == IF op = "file" THEN 1 ELSE IF op = "keychain" THEN 2 ELSE 3

Count(s, x) == Cardinality({i \in 1..Len(s) : s[i] = x})

\* C1: every invocation ends in exactly one of two outcomes: success (one
\* line on standard output, nothing on standard error, exit status 0) or
\* failure (one message "Error: <message>" on standard error, nothing on
\* standard output, exit status 1); a run that has not ended has written
\* nothing and can take a step, and no run writes to both streams.
C1_OneOutcome ==
    /\ Terminated \/ ENABLED Next
    /\ ~Terminated => exitCode = -1 /\ stdout = <<>> /\ stderr = <<>>
    /\ pc = "Rendered" => exitCode = 0 /\ Len(stdout) = 1 /\ stderr = <<>>
    /\ pc = "Failed" =>
          /\ exitCode = 1
          /\ stdout = <<>>
          /\ Len(stderr) = 1
          /\ Len(stderr[1]) >= 2
          /\ stderr[1][1] = "Error: "
          /\ SubSeq(stderr[1], 2, Len(stderr[1])) = err
    /\ stdout = <<>> \/ stderr = <<>>

\* A run that fails late: the response was a 200 and still nothing was
\* printed on standard output.
C1_Witness ==
    /\ pc = "Failed"
    /\ response.kind = "http"
    /\ response.status = StatusOK
    /\ exitCode = 1
    /\ stdout = <<>>

\* The order of the states of main.
C2_Step ==
    pc' # pc =>
        <<pc, pc'>> \in { <<"ResolvingCredentials", "QueryingKeychain">>,
                          <<"ResolvingCredentials", "FetchingUsage">>,
                          <<"ResolvingCredentials", "Failing">>,
                          <<"QueryingKeychain", "FetchingUsage">>,
                          <<"QueryingKeychain", "Failing">>,
                          <<"FetchingUsage", "Formatting">>,
                          <<"FetchingUsage", "Failing">>,
                          <<"Formatting", "Rendered">>,
                          <<"Failing", "Failed">> }

\* The token the sources of this run resolve to: the file's when the file
\* yields one, else the Keychain's.
C2_ResolvedToken ==
    IF FileResult.err = <<>> THEN FileResult.token ELSE KeychainResult.token

\* Credential resolution has failed: the file failed and there is no
\* fallback, or the Keychain failed too.
C2_ResolutionFailed ==
    /\ FileTried
    /\ FileResult.err # <<>>
    /\ \/ ~HasKeychainFallback(variant, goos)
       \/ KeychainTried /\ KeychainResult.err # <<>>

C2_State ==
    /\ requests # <<>> =>
          /\ Len(requests) = 1
          /\ pc \notin {"ResolvingCredentials", "QueryingKeychain"}
          /\ ~C2_ResolutionFailed
          /\ token = C2_ResolvedToken
          /\ requests[1].Authorization = "Bearer " \o C2_ResolvedToken
    /\ C2_ResolutionFailed => requests = <<>> /\ pc \in {"Failing", "Failed"}
    /\ pc \in {"Formatting", "Rendered"} =>
          /\ Len(requests) = 1
          /\ response.kind = "http"
          /\ fetchUsageFromURL(usageAPIURL, token, response).ok
          /\ err = <<>>
    /\ stdout # <<>> =>
          /\ pc = "Rendered"
          /\ stdout[1] = formatStatusLine(variant, usage, now)

\* C2: main moves through ResolvingCredentials, FetchingUsage, Rendered in
\* that order; the request is issued only after credentials resolved and
\* carries "Bearer <resolved token>"; a failed resolution issues no request;
\* the line is formatted only after the fetch succeeded.
C2_Order == [](C2_State) /\ [][C2_Step]_vars

\* A run that resolved its token from the Keychain, sent it and printed.
C2_Witness ==
    /\ pc = "Rendered"
    /\ FileResult.err # <<>>
    /\ keychain = [state |-> "item", data |-> CredJson("tokB")]
    /\ requests = <<NewRequest(usageAPIURL, "tokB")>>
    /\ Len(stdout) = 1

\* C3: one invocation performs at most one credentials-file read, at most
\* one Keychain query and at most one HTTP request, in that order; no
\* request follows the one that failed.
C3_SingleShot ==
    /\ \A i, j \in 1..Len(io) : i < j => Rank(io[i]) < Rank(io[j])
    /\ Len(requests) = Count(io, "http")
    /\ Len(requests) <= 1
    /\ response # NoResponse => Len(requests) = 1
    /\ pc \in {"Failing", "Failed"} /\ response # NoResponse =>
          ~fetchUsageFromURL(usageAPIURL, token, response).ok

\* All three operations happened and the request was refused with a 500.
C3_Witness ==
    /\ pc = "Failed"
    /\ io = <<"file", "keychain", "http">>
    /\ response.kind = "http"
    /\ response.status = 500
    /\ Len(requests) = 1

\* C4: the file is tried first and its token returned without querying the
\* Keychain; the Keychain is queried only on darwin and only after the file
\* failed (for whatever reason), and then always; it is parsed with the same
\* JSON shape and the same empty-token check as the file; the first source
\* that succeeds gives the token.
C4_FileThenKeychain ==
    /\ KeychainTried =>
          /\ goos = "darwin"
          /\ FileTried
          /\ FileResult.err # <<>>
          /\ io \in {<<"keychain">>, <<"file", "keychain">>,
                     <<"keychain", "http">>, <<"file", "keychain", "http">>}
    /\ FileTried /\ FileResult.err = <<>> =>
          /\ ~KeychainTried
          /\ token = FileResult.token
          /\ pc \notin {"QueryingKeychain", "Failing", "Failed"} \/ response # NoResponse
    /\ FileTried /\ FileResult.err # <<>> /\ goos = "darwin" =>
          pc = "QueryingKeychain" \/ KeychainTried
    /\ FileTried /\ goos # "darwin" => "keychain" \notin Range(io)
    /\ KeychainTried /\ keychain.state = "item" =>
          LET asFile == readCredentialsFromFile("/home/u",
                            [state |-> "present", data |-> keychain.data])
          IN  /\ (KeychainResult.err = <<>>) = (asFile.err = <<>>)
              /\ KeychainResult.token = asFile.token
    /\ KeychainTried /\ KeychainResult.err = <<>> => token = KeychainResult.token
    /\ KeychainTried /\ KeychainResult.err # <<>> =>
          token = "" /\ pc \in {"Failing", "Failed"}

\* On darwin a file whose token is empty made the run fall back to the
\* Keychain, whose token is the one in use.
C4_Witness ==
    /\ goos = "darwin"
    /\ pc = "FetchingUsage"
    /\ file = [state |-> "present", data |-> CredJson("")]
    /\ keychain = [state |-> "item", data |-> CredJson("tokB")]
    /\ token = "tokB"
    /\ io = <<"file", "keychain">>

\* readCredentials has returned an error and main is about to report it.
CredentialsFailing == pc = "Failing" /\ response = NoResponse

\* The failure of the last source readCredentials tried.
LastFailure == IF KeychainTried THEN KeychainResult.err ELSE FileResult.err

EndsWith(s, t) ==
    Len(s) >= Len(t) /\ SubSeq(s, Len(s) - Len(t) + 1, Len(s)) = t

C6_MissingFileNamesPath ==
    FileTried /\ ~HasKeychainFallback(variant, goos) /\ file.state = "missing" =>
        /\ pc \in {"Failing", "Failed"}
        /\ requests = <<>>
        /\ home \o "/.claude/.credentials.json" \in Range(err)
        /\ pc = "Failed" =>
              /\ exitCode # 0
              /\ stdout = <<>>
              /\ Len(stderr) = 1
              /\ home \o "/.claude/.credentials.json" \in Range(stderr[1])

\* The legacy program on linux has exited on a missing file.
C6_Witness ==
    /\ pc = "Failed"
    /\ variant = "legacy"
    /\ goos = "linux"
    /\ file.state = "missing"
    /\ exitCode = 1

\* A source holds JSON that parses but has no, or an empty, accessToken.
BlankToken(src) ==
    /\ src.data.kind = "json"
    /\ UnmarshalCredentials(src.data).AccessToken = ""

\* C7: a token readCredentials returns is never empty; a source whose JSON
\* parses but whose accessToken is absent or empty fails, and when no other
\* source succeeds the run ends with an error before any HTTP request.
C7_TokenNeverEmpty ==
    /\ pc \in {"FetchingUsage", "Formatting", "Rendered"} => token # ""
    /\ \A i \in 1..Len(requests) : requests[i].Authorization # "Bearer "
    /\ FileTried /\ file.state = "present" /\ BlankToken(file) =>
          /\ pc = "QueryingKeychain" \/ KeychainTried \/ pc \in {"Failing", "Failed"}
          /\ ~KeychainTried => requests = <<>>
          /\ ~HasKeychainFallback(variant, goos) => pc \in {"Failing", "Failed"}
    /\ KeychainTried /\ keychain.state = "item" /\ BlankToken(keychain) =>
          /\ pc \in {"Failing", "Failed"}
          /\ requests = <<>>
          /\ token = ""

\* File and Keychain both hold an empty token and the run has failed.
C7_Witness ==
    /\ pc = "Failed"
    /\ file = [state |-> "present", data |-> CredJson("")]
    /\ keychain = [state |-> "item", data |-> [kind |-> "json", doc |-> EmptyObj]]
    /\ requests = <<>>
    /\ exitCode = 1

\* C8: a response whose status is not 2xx makes fetchUsageFromURL return an
\* error carrying the status code and the body, and no snapshot; the run
\* exits non-zero and prints no part of a status line.
C8_StatusError ==
    response.kind = "http" /\ response.status \notin 200..299 =>
        /\ pc \in {"Failing", "Failed"}
        /\ usage = ZeroUsage
        /\ ToString(response.status) \in Range(err)
        /\ response.body.text \in Range(err)
        /\ stdout = <<>>
        /\ pc = "Failed" => exitCode = 1 /\ EndsWith(stderr[1], err)

\* A 401 whose body is JSON of another shape than the usage document.
C8_Witness ==
    /\ pc = "Failed"
    /\ response.kind = "http"
    /\ response.status = 401
    /\ response.body.kind = "mistyped"
    /\ exitCode = 1

\* A body that carries both buckets with both fields.
WellFormed(body) ==
    /\ body.kind = "json"
    /\ DOMAIN body.doc = {"five_hour", "seven_day"}
    /\ \A k \in DOMAIN body.doc : DOMAIN body.doc[k] = {"utilization", "resets_at"}

\* C9: a 200 whose body does not decode as the usage shape gives a decode
\* error and no snapshot; a 200 with a well-formed body gives a snapshot
\* whose utilization and resets_at, per bucket, are those of the body.
C9_Decode ==
    response.kind = "http" /\ response.status = StatusOK =>
        /\ response.body.kind \in {"garbage", "mistyped"} =>
              /\ pc \in {"Failing", "Failed"}
              /\ err[1] = "failed to parse usage response: "
              /\ usage = ZeroUsage
              /\ stdout = <<>>
        /\ WellFormed(response.body) =>
              /\ pc \in {"Formatting", "Rendered"}
              /\ err = <<>>
              /\ usage.FiveHour.Utilization = response.body.doc.five_hour.utilization
              /\ usage.FiveHour.ResetsAt = response.body.doc.five_hour.resets_at
              /\ usage.SevenDay.Utilization = response.body.doc.seven_day.utilization
              /\ usage.SevenDay.ResetsAt = response.body.doc.seven_day.resets_at

\* A decoded snapshot whose two buckets differ in both fields.
C9_Witness ==
    /\ pc = "Formatting"
    /\ response.status = StatusOK
    /\ usage = [FiveHour |-> [Utilization |-> 7800, ResetsAt |-> <<9, 15, 0, 0>>],
                SevenDay |-> [Utilization |-> 45, ResetsAt |-> <<0>>]]

----------------------------------------------------------------------------
(* The bar laboratory: the bar functions applied to every percent and      *)
(* width of a grid.                                                        *)

\* Widths run from 0 to MaxWidth cells.
MaxWidth == 20

\* Percents are the multiples of PercentStep hundredths from -5.00 to 105.00.
PercentStep == 5

\* Percents far outside [0,100].
FarPercents == {-100000, -10000, -100, 20000, 100000}

LabPercents ==
    { k * PercentStep : k \in -(500 \div PercentStep)..(10500 \div PercentStep) }
    \cup FarPercents

InitBar ==
    /\ variant = "legacy"
    /\ goos = "linux"
    /\ pc = "BarLab"
    /\ home = ""
    /\ file = Unread
    /\ keychain = Unread
    /\ response = NoResponse
    /\ token = ""
    /\ err = <<>>
    /\ usage = ZeroUsage
    /\ now = 0
    /\ io = <<>>
    /\ requests = <<>>
    /\ stdout = <<>>
    /\ stderr = <<>>
    /\ exitCode = -1
    /\ \E p \in LabPercents, w \in 0..MaxWidth :
         bar = [NoBar EXCEPT !.percent = p, !.width = w]
    /\ wrapper = NoWrapper

\* renderProgressBar(percent, width), createProgressBar(percent, width) and
\* the label of the same percent.
DrawBar ==
    /\ pc = "BarLab"
    /\ ~bar.drawn
    /\ bar' = [bar EXCEPT !.drawn = TRUE,
                          !.cells = renderProgressBar(bar.percent, bar.width),
                          !.widget = createProgressBar(bar.percent, bar.width),
                          !.label = LabelOf(bar.percent)]
    /\ UNCHANGED <<variant, goos, pc, home, file, keychain, response, token,
                   err, usage, now, io, requests, stdout, stderr, exitCode,
                   wrapper>>

NextBar == DrawBar

SpecBar == InitBar /\ [][NextBar]_vars

\* C10: for a percent in [0,100] the bar has exactly width cells, the first
\* floor(width * percent / 100) of them filled and all the others empty, so
\* that no empty cell precedes a filled one; the widget of the current
\* program is asked for the same width and the fraction percent / 100.
C10_BarCells ==
    bar.drawn /\ bar.percent \in 0..10000 =>
        LET n == (bar.width * bar.percent) \div 10000
        IN  /\ Len(bar.cells) = bar.width
            /\ \A i \in 1..bar.width :
                 bar.cells[i].glyph = IF i <= n THEN "filled" ELSE "empty"
            /\ \A i, j \in 1..Len(bar.cells) :
                 i < j /\ bar.cells[i].glyph = "empty" => bar.cells[j].glyph = "empty"
            /\ bar.widget.width = bar.width
            /\ bar.widget.viewAs = bar.percent

\* A 10-cell bar at 69.95%: six cells filled, four empty.
C10_Witness ==
    /\ bar.drawn
    /\ bar.percent = 6995
    /\ bar.width = 10
    /\ Len(bar.cells) = 10
    /\ bar.cells[6].glyph = "filled"
    /\ bar.cells[7].glyph = "empty"

\* How alarming a colour is.
Severity(c) ==
    IF c = "green" THEN 1
    ELSE IF c = "lime" THEN 2
    ELSE IF c = "yellow" THEN 3
    ELSE IF c = "orange" THEN 4
    ELSE 5

\* The indices of the filled cells of a bar.
FilledAt(cells) == {k \in 1..Len(cells) : cells[k].glyph = "filled"}

\* C11: the bar saturates and never fails: below 0 it is the bar of 0, above
\* 100 the bar of 100, an in-range percent is drawn as it is, and every
\* percent and width gets a bar.
C11_Saturates ==
    /\ ~bar.drawn => ENABLED DrawBar
    /\ bar.drawn =>
          /\ bar.percent < 0 =>
                /\ bar.cells = renderProgressBar(0, bar.width)
                /\ bar.widget = createProgressBar(0, bar.width)
                /\ FilledAt(bar.cells) = {}
          /\ bar.percent > 10000 =>
                /\ bar.cells = renderProgressBar(10000, bar.width)
                /\ bar.widget = createProgressBar(10000, bar.width)
                /\ FilledAt(bar.cells) = 1..bar.width
          /\ bar.percent \in 0..10000 =>
                /\ bar.widget.viewAs = bar.percent
                /\ Cardinality(FilledAt(bar.cells)) = (bar.width * bar.percent) \div 10000
          /\ Len(bar.cells) = bar.width

\* A 10-cell bar at 200%: all ten cells filled.
C11_Witness ==
    /\ bar.drawn
    /\ bar.percent = 20000
    /\ bar.width = 10
    /\ FilledAt(bar.cells) = 1..10

\* The colour the thresholds 0.5, 0.7, 0.85, 0.95 give position i / w.
C12_ColorAt(i, w) ==
    IF 100 * i < 50 * w THEN "green"
    ELSE IF 100 * i < 70 * w THEN "lime"
    ELSE IF 100 * i < 85 * w THEN "yellow"
    ELSE IF 100 * i < 95 * w THEN "orange"
    ELSE "red"

\* Percents a bar is compared with.
C12_OtherPercents == {k * 500 : k \in 0..20}

ColorsOf(cells) == {cells[k].color : k \in FilledAt(cells)}

\* C13: a 10-cell bar at 95% or at 100% holds cells of every gradient
\* colour: green, lime, yellow, orange and red.
C13_FullSpectrum ==
    bar.drawn /\ bar.width = BarWidth /\ bar.percent \in {9500, 10000} =>
        ColorsOf(bar.cells) = {"green", "lime", "yellow", "orange", "red"}

C15_NinetyIsYellow ==
    bar.drawn =>
        /\ bar.percent < 7000 => bar.label.color = "green"
        /\ bar.percent >= 7000 /\ bar.percent <= 9000 => bar.label.color = "yellow"
        /\ bar.percent > 9000 => bar.label.color = "red"

----------------------------------------------------------------------------
(* Status line laboratory: formatStatusLine on a wider range of snapshots  *)
(* than the run of main draws.  The run starts where main has the usage    *)
(* (credentials read from the file, the fetch answered 200) and is about   *)
(* to print.                                                               *)

\* Utilizations on both scales seen in the repository: fractions of 1 and
\* percents, with the values next to the label thresholds.
LineUtilizations ==
    { -500, -150, -100, -50, 0, 45, 78, 95, 100, 4500, 4599, 6999, 7000,
      7800, 8999, 9000, 9500, 9999, 10000, 10050, 10100, 12000 }

\* Reset strings that time.Parse accepts, around the times of Nows.
LineResets ==
    { <<d, h, m, sec>> : d \in {9, 10}, h \in {0, 12, 13, 14, 15, 23},
                         m \in {0, 44, 45, 59}, sec \in {0, 29, 30, 59} }

\* Reset strings that time.Parse rejects: empty, text, fields out of range.
BadResets ==
    { <<>>, <<0>>, <<9, 24, 0, 0>>, <<9, 15, 60, 0>>, <<32, 15, 0, 0>> }

\* Seven-day resets: sooner than most five-hour resets, later, unparseable.
LineSevenDayResets == { <<9, 13, 0, 0>>, <<12, 0, 0, 0>>, <<0>> }

\* The response bodies of the laboratory: every pair of utilizations with
\* fixed resets, and every pair of resets with fixed utilizations.
LineDocs ==
    { [five_hour |-> [utilization |-> a, resets_at |-> <<9, 15, 0, 0>>],
       seven_day |-> [utilization |-> b, resets_at |-> <<12, 0, 0, 0>>]] :
         a, b \in LineUtilizations }
    \cup
    { [five_hour |-> [utilization |-> 4500, resets_at |-> r],
       seven_day |-> [utilization |-> 7800, resets_at |-> q]] :
         r \in LineResets \cup BadResets, q \in LineSevenDayResets }

LineResponse(d) ==
    [kind |-> "http", status |-> StatusOK,
     body |-> [kind |-> "json", text |-> ToString(d), doc |-> d]]

InitLine ==
    /\ variant \in Variants
    /\ goos = "linux"
    /\ pc = "Formatting"
    /\ home = "/home/u"
    /\ file = [state |-> "present", data |-> CredJson("tokA")]
    /\ keychain = Unread
    /\ token = "tokA"
    /\ err = <<>>
    /\ \E d \in LineDocs :
         /\ response = LineResponse(d)
         /\ usage = fetchUsageFromURL(usageAPIURL, "tokA", LineResponse(d)).usage
    /\ now = 0
    /\ io = <<"file", "http">>
    /\ requests = <<NewRequest(usageAPIURL, "tokA")>>
    /\ stdout = <<>>
    /\ stderr = <<>>
    /\ exitCode = -1
    /\ bar = NoBar
    /\ wrapper = NoWrapper

NextLine == PrintStatusLine

SpecLine == InitLine /\ [][NextLine]_vars

\* The line the run printed, and its pieces by position.
Line == stdout[1]

Printed == pc = "Rendered" /\ Len(stdout) = 1

\* C16: the countdown is "unknown" when the reset is not RFC3339, "now"
\* when the reset is at or before now or less than a minute ahead, and
\* otherwise the whole hours H = floor(seconds/3600) and whole minutes
\* M = floor(seconds/60) mod 60 as "<H>h<M>m", "<H>h" or "<M>m", a zero
\* component being left out and nothing rounded up.
C16_Countdown ==
    Printed =>
        LET parsed  == ParseRFC3339(usage.FiveHour.ResetsAt)
            seconds == parsed.sec - now
            H       == seconds \div 3600
            M       == (seconds \div 60) % 60
            shown   == Line[10].val
        IN  /\ ~parsed.ok => shown = <<"unknown">>
            /\ parsed.ok /\ seconds < 60 => shown = <<"now">>
            /\ parsed.ok /\ seconds >= 60 /\ H > 0 /\ M > 0 =>
                  shown = <<ToString(H), "h", ToString(M), "m">>
            /\ parsed.ok /\ seconds >= 60 /\ H > 0 /\ M = 0 =>
                  shown = <<ToString(H), "h">>
            /\ parsed.ok /\ seconds >= 60 /\ H = 0 =>
                  shown = <<ToString(M), "m">>
            /\ \A k \in 1..Len(shown) : shown[k] # "0"

\* The reset is 2h15m29s ahead: "2h15m", the 29 seconds dropped.
C16_Witness ==
    /\ Printed
    /\ usage.FiveHour.ResetsAt = <<9, 15, 0, 29>>
    /\ now = ParseRFC3339(<<9, 12, 45, 0>>).sec
    /\ Line[10].val = <<"2", "h", "15", "m">>

\* The fetch went out and fetchUsageFromURL returned a snapshot.
FetchSucceeded ==
    /\ Len(requests) = 1
    /\ fetchUsageFromURL(usageAPIURL, token, response).ok

\* C17: a reset string that does not parse is never fatal: once the
\* credentials resolved and the fetch succeeded the run goes on to print
\* one line and exit 0 whatever the resets_at strings are, and the
\* countdown of an unparseable five-hour reset reads "unknown".
C17_UnparseableNotFatal ==
    FetchSucceeded =>
        /\ pc \in {"Formatting", "Rendered"}
        /\ pc = "Formatting" => ENABLED PrintStatusLine
        /\ pc = "Rendered" =>
              /\ exitCode = 0
              /\ Len(stdout) = 1
              /\ stderr = <<>>
              /\ ~ParseRFC3339(usage.FiveHour.ResetsAt).ok =>
                    stdout[1][10].val = <<"unknown">>

\* A run that rendered a snapshot whose resets do not parse.
C17_Witness ==
    /\ pc = "Rendered"
    /\ usage.FiveHour.ResetsAt = <<0>>
    /\ usage.SevenDay.ResetsAt = <<0>>
    /\ stdout[1][10].val = <<"unknown">>
    /\ exitCode = 0

\* A 10-cell bar showing utilization u: ten cells of which
\* floor(10 * clamp(u) / 100) are filled, or the widget set to clamp(u).
ShowsBar(b, u) ==
    LET c == IF u < 0 THEN 0 ELSE IF u > 10000 THEN 10000 ELSE u
    IN  IF variant = "legacy"
        THEN /\ Len(b) = 10
             /\ FilledAt(b) = 1..((10 * c) \div 10000)
        ELSE /\ b.width = 10
             /\ b.viewAs = c

\* A label showing the whole percent of utilization u followed by "%".
ShowsPercent(l, u) ==
    /\ l.number = (IF u >= 0 THEN u \div 100 ELSE -((-u) \div 100))
    /\ l.suffix = "%"

\* C18: the line holds, in this order, "5h", a 10-cell bar and the percent
\* of the five-hour bucket, "7d", a 10-cell bar and the percent of the
\* seven-day bucket, and exactly one countdown; each bar and percent comes
\* from its own bucket only.
C18_LineLayout ==
    Printed =>
        /\ [k \in 1..Len(Line) |-> Line[k].kind] =
             <<"text", "bar", "label", "text", "text", "bar", "label",
               "text", "text", "reset">>
        /\ Line[1].val = "5h"
        /\ ShowsBar(Line[2].val, usage.FiveHour.Utilization)
        /\ ShowsPercent(Line[3].val, usage.FiveHour.Utilization)
        /\ Line[5].val = "7d"
        /\ ShowsBar(Line[6].val, usage.SevenDay.Utilization)
        /\ ShowsPercent(Line[7].val, usage.SevenDay.Utilization)
        /\ Cardinality({k \in 1..Len(Line) : Line[k].kind = "reset"}) = 1
        /\ \A x \in {0, 5000, 10000} :
             LET a == formatStatusLine(variant,
                        [usage EXCEPT !.SevenDay.Utilization = x], now)
                 b == formatStatusLine(variant,
                        [usage EXCEPT !.FiveHour.Utilization = x], now)
             IN  /\ a[2] = Line[2] /\ a[3] = Line[3]
                 /\ b[6] = Line[6] /\ b[7] = Line[7]

\* Five-hour at 45%, seven-day at 78%: 4 and 7 cells, "45%" and "78%".
C18_Witness ==
    /\ Printed
    /\ variant = "legacy"
    /\ usage.FiveHour.Utilization = 4500
    /\ usage.SevenDay.Utilization = 7800
    /\ Cardinality(FilledAt(Line[2].val)) = 4
    /\ Cardinality(FilledAt(Line[6].val)) = 7
    /\ Line[3].val.number = 45
    /\ Line[7].val.number = 78

LabelAt == { [u |-> usage.FiveHour.Utilization, k |-> 3],
             [u |-> usage.SevenDay.Utilization, k |-> 7] }

C22_OnlyStatusOK ==
    response.kind = "http" /\ response.status # 200 =>
        /\ pc \in {"Failing", "Failed"}
        /\ usage = ZeroUsage
        /\ err = <<"API returned status ", ToString(response.status), ": ",
                   response.body.text>>
        /\ stdout = <<>>
        /\ pc = "Failed" => exitCode = 1

\* A 204 whose body is a well-formed usage document.
C22_Witness ==
    /\ pc = "Failed"
    /\ response.kind = "http"
    /\ response.status = 204
    /\ WellFormed(response.body)
    /\ response.body.doc.five_hour.utilization = 7800
    /\ usage = ZeroUsage

\* The bar of the line at position k is completely filled / empty.
FullBar(k) ==
    IF variant = "legacy"
    THEN FilledAt(Line[k].val) = 1..10
    ELSE Line[k].val.viewAs = 10000

EmptyBar(k) ==
    IF variant = "legacy"
    THEN FilledAt(Line[k].val) = {}
    ELSE Line[k].val.viewAs = 0

\* The buckets of the snapshot with the positions of their bars and labels.
ColumnAt == { [u |-> usage.FiveHour.Utilization, bar |-> 2, label |-> 3],
              [u |-> usage.SevenDay.Utilization, bar |-> 6, label |-> 7] }

\* n is u truncated toward zero (u in hundredths).
TruncatedTo(u, n) ==
    IF u >= 0
    THEN n >= 0 /\ 100 * n <= u /\ u < 100 * (n + 1)
    ELSE n <= 0 /\ 100 * n >= u /\ u > 100 * (n - 1)

\* C23 as stated: the number is the utilization truncated toward zero and
\* unclamped while the bar is clamped: above 100 a full bar next to a
\* number greater than 100, at or below -1 an empty bar next to a negative
\* number; formatStatusLine never fails.
C23_NumberAbove100 ==
    /\ pc = "Formatting" => ENABLED PrintStatusLine
    /\ Printed =>
         \A e \in ColumnAt :
            /\ TruncatedTo(e.u, Line[e.label].val.number)
            /\ e.u > 10000 => FullBar(e.bar) /\ Line[e.label].val.number > 100
            /\ e.u <= -100 => EmptyBar(e.bar) /\ Line[e.label].val.number < 0

\* C23: the number is the utilization truncated toward zero and unclamped
\* while the bar is clamped: above 100 a full bar next to a number of at
\* least 100, greater than 100 from 101 on; at or below -1 an empty bar
\* next to a negative number; formatStatusLine never fails.
C23_NumberUnclamped ==
    /\ pc = "Formatting" => ENABLED PrintStatusLine
    /\ Printed =>
         \A e \in ColumnAt :
            /\ TruncatedTo(e.u, Line[e.label].val.number)
            /\ e.u > 10000 => FullBar(e.bar) /\ Line[e.label].val.number >= 100
            /\ e.u > 10000 /\ e.u < 10100 => Line[e.label].val.number = 100
            /\ e.u >= 10100 => Line[e.label].val.number > 100
            /\ e.u <= -100 => EmptyBar(e.bar) /\ Line[e.label].val.number < 0
            /\ e.u > -100 /\ e.u < 0 =>
                  EmptyBar(e.bar) /\ Line[e.label].val.number = 0

\* 120 next to a full bar, -0.5 shown as 0 next to an empty bar.
C23_Witness ==
    /\ Printed
    /\ usage.FiveHour.Utilization = 12000
    /\ usage.SevenDay.Utilization = -50
    /\ FullBar(2)
    /\ Line[3].val.number = 120
    /\ EmptyBar(6)
    /\ Line[7].val.number = 0

\* The body lacks the field of the bucket.
Lacks(key, field) ==
    \/ key \notin DOMAIN response.body.doc
    \/ field \notin DOMAIN response.body.doc[key]

\* C24: a 200 whose body is JSON lacking five_hour, seven_day or their
\* fields is not an error: the missing utilization is 0 and the missing
\* resets_at the empty string, the run prints empty bars, "0%" and the
\* countdown "unknown" and exits 0.
C24_MissingFieldsAreZero ==
    response.kind = "http" /\ response.status = 200
    /\ response.body.kind = "json" =>
        /\ pc \in {"Formatting", "Rendered"}
        /\ err = <<>>
        /\ Lacks("five_hour", "utilization") => usage.FiveHour.Utilization = 0
        /\ Lacks("five_hour", "resets_at") => usage.FiveHour.ResetsAt = <<>>
        /\ Lacks("seven_day", "utilization") => usage.SevenDay.Utilization = 0
        /\ Lacks("seven_day", "resets_at") => usage.SevenDay.ResetsAt = <<>>
        /\ pc = "Formatting" => ENABLED PrintStatusLine
        /\ pc = "Rendered" =>
              /\ exitCode = 0
              /\ stderr = <<>>
              /\ Len(stdout) = 1
              /\ Lacks("five_hour", "utilization") =>
                    /\ EmptyBar(2)
                    /\ Line[3].val.number = 0 /\ Line[3].val.suffix = "%"
              /\ Lacks("seven_day", "utilization") =>
                    /\ EmptyBar(6)
                    /\ Line[7].val.number = 0 /\ Line[7].val.suffix = "%"
              /\ Lacks("five_hour", "resets_at") => Line[10].val = <<"unknown">>

\* The body is the empty JSON object.
C24_Witness ==
    /\ pc = "Rendered"
    /\ response.status = 200
    /\ response.body.kind = "json"
    /\ DOMAIN response.body.doc = {}
    /\ exitCode = 0
    /\ EmptyBar(2)
    /\ EmptyBar(6)
    /\ Line[3].val.number = 0
    /\ Line[10].val = <<"unknown">>

----------------------------------------------------------------------------
(* Wrapper script: src/output/statusline.sh                                *)
(* A stream is a sequence of tokens: a line's text, or a newline.          *)

NL == [kind |-> "nl", val |-> <<>>]

LineToken(l) == [kind |-> "line", val |-> l]

\* What the program wrote to a stream: fmt.Println and fmt.Fprintf(...\n)
\* end every line with a newline.
Written(lines) ==
    [k \in 1..(2 * Len(lines)) |->
        IF k % 2 = 1 THEN LineToken(lines[(k + 1) \div 2]) ELSE NL]

\* A message on standard error as the text of a line.
StderrLine(m) == [k \in 1..Len(m) |-> Piece("text", m[k])]

RECURSIVE StripTrailingNewlines(_)
StripTrailingNewlines(s) ==
    IF Len(s) > 0 /\ s[Len(s)].kind = "nl"
    THEN StripTrailingNewlines(SubSeq(s, 1, Len(s) - 1))
    ELSE s

\* output=$("$BINARY" 2>&1): both streams of the child, the trailing
\* newlines removed.  (A run writes to one of the two streams only, so the
\* order of the two is immaterial.)
CommandSubstitution(out, errs) ==
    StripTrailingNewlines(
        Written(out) \o Written([k \in 1..Len(errs) |-> StderrLine(errs[k])]))

\* echo "<text>": the text and a newline.
Echo(text) == text \o <<NL>>

\* The static placeholder (the script puts a warning sign before it).
Placeholder == <<LineToken(<<Piece("text", "Usage unavailable")>>)>>

\* Faulty variant: the captured output is shown whatever the exit status.
EchoResult_Always(code, output) == Echo(output)

\* Lines 22-26 of the script: the output on exit 0, else the placeholder.
EchoResult(code, output) ==
    IF code = 0 THEN Echo(output) ELSE Echo(Placeholder)

\* What Claude Code may deliver on standard input: nothing, a JSON context,
\* or a context on a pipe that is never closed.
Stdins ==
    { [data |-> <<>>, eof |-> TRUE],
      [data |-> <<"{\"model\":\"x\",", "\"cwd\":\"/\"}">>, eof |-> TRUE],
      [data |-> <<"{\"model\":\"x\",">>, eof |-> FALSE] }

\* What is found at $BINARY: nothing, a file without the x bit, something
\* that passes [ -x ] but cannot be executed, or the program.
BinaryFiles == {"missing", "notExecutable", "directory", "executable"}

\* [ -x "$BINARY" ]
IsExecutable(b) == b \in {"directory", "executable"}

\* The exit status bash gives a command it could not execute.
ExecFailedStatus == 126

InitWrapper ==
    /\ variant \in Variants
    /\ goos \in Platforms
    /\ pc = "NotStarted"
    /\ home \in Homes
    /\ file = Unread
    /\ keychain = Unread
    /\ response = NoResponse
    /\ token = ""
    /\ err = <<>>
    /\ usage = ZeroUsage
    /\ now = 0
    /\ io = <<>>
    /\ requests = <<>>
    /\ stdout = <<>>
    /\ stderr = <<>>
    /\ exitCode = -1
    /\ bar = NoBar
    /\ \E in \in Stdins, b \in BinaryFiles :
         wrapper = [NoWrapper EXCEPT !.pc = "ReadingStdin", !.stdin = in,
                                     !.binary = b]

\* cat > /dev/null: returns at end of input, everything read is dropped.
DiscardStdin ==
    /\ wrapper.pc = "ReadingStdin"
    /\ wrapper.stdin.eof
    /\ wrapper' = [wrapper EXCEPT !.pc = "TestingBinary",
                                  !.devnull = @ \o wrapper.stdin.data,
                                  !.stdin.data = <<>>]
    /\ UNCHANGED <<variant, goos, pc, home, file, keychain, response, token,
                   err, usage, now, io, requests, stdout, stderr, exitCode,
                   bar>>

\* if [ -x "$BINARY" ]: the child is started (or bash fails to execute it);
\* else the placeholder is printed and the script ends.
RunBinary ==
    /\ wrapper.pc = "TestingBinary"
    /\ IF ~IsExecutable(wrapper.binary)
       THEN /\ wrapper' = [wrapper EXCEPT !.pc = "Done",
                                          !.out = @ \o Echo(Placeholder)]
            /\ UNCHANGED <<pc, stderr, exitCode>>
       ELSE IF wrapper.binary = "executable"
       THEN /\ wrapper' = [wrapper EXCEPT !.pc = "Waiting"]
            /\ pc' = "ResolvingCredentials"
            /\ UNCHANGED <<stderr, exitCode>>
       ELSE /\ wrapper' = [wrapper EXCEPT !.pc = "Waiting"]
            /\ pc' = "ExecFailed"
            /\ stderr' = Append(stderr, <<"bash: ", "Is a directory">>)
            /\ exitCode' = ExecFailedStatus
    /\ UNCHANGED <<variant, goos, home, file, keychain, response, token,
                   err, usage, now, io, requests, stdout, bar>>

\* The child has exited: output and exit_code are set and one of the two
\* echo commands of lines 22-26 runs.
CollectAndEcho ==
    /\ wrapper.pc = "Waiting"
    /\ pc \in {"Rendered", "Failed", "ExecFailed"}
    /\ LET output == CommandSubstitution(stdout, stderr)
       IN  wrapper' = [wrapper EXCEPT !.pc = "Done",
                                      !.output = output,
                                      !.exit_code = exitCode,
                                      !.out = @ \o EchoResult(exitCode, output)]
    /\ UNCHANGED <<variant, goos, pc, home, file, keychain, response, token,
                   err, usage, now, io, requests, stdout, stderr, exitCode,
                   bar>>

NextWrapper ==
    \/ DiscardStdin
    \/ RunBinary
    \/ ReadCredentialsFile
    \/ QueryKeychain
    \/ FetchUsage
    \/ PrintStatusLine
    \/ ExitWithError
    \/ CollectAndEcho

SpecWrapper == InitWrapper /\ [][NextWrapper]_vars

\* C21: the wrapper reads its standard input to the end and drops it before
\* the binary runs, and prints exactly one result: the binary's output when
\* the binary is executable and exits 0, the placeholder when it is
\* missing, not executable or exits non-zero; an error message of the
\* binary is never printed.
C21_WrapperResult ==
    /\ wrapper.pc # "ReadingStdin" =>
          wrapper.stdin.eof /\ wrapper.stdin.data = <<>>
    /\ wrapper.pc = "ReadingStdin" => pc = "NotStarted" /\ wrapper.out = <<>>
    /\ wrapper.pc \in {"TestingBinary", "Waiting"} => wrapper.out = <<>>
    /\ wrapper.pc = "Waiting" /\ pc \in {"Rendered", "Failed", "ExecFailed"} =>
          ENABLED CollectAndEcho
    /\ wrapper.pc = "Done" =>
          /\ Len(wrapper.out) = 2
          /\ wrapper.out[1].kind = "line"
          /\ wrapper.out[2].kind = "nl"
          /\ IF wrapper.binary = "executable" /\ exitCode = 0
             THEN wrapper.out[1].val = stdout[1]
             ELSE wrapper.out[1].val = <<[kind |-> "text", val |-> "Usage unavailable"]>>
          /\ \A k \in 1..Len(stderr) :
                wrapper.out[1].val # StderrLine(stderr[k])

\* The binary failed with a message; the wrapper, given a JSON context on
\* standard input, printed the placeholder.
C21_Witness ==
    /\ wrapper.pc = "Done"
    /\ Len(wrapper.devnull) = 2
    /\ wrapper.binary = "executable"
    /\ wrapper.exit_code = 1
    /\ Len(stderr) = 1
    /\ wrapper.output = <<LineToken(StderrLine(stderr[1]))>>
    /\ wrapper.out = Echo(Placeholder)

====
